---- MODULE Spec2Model ----
(***************************************************************************)
(* CRUD adapters of two azurerm resources against the remote management    *)
(* API:                                                                    *)
(*   - azurerm_recovery_services_replication_fabric   (kind "fabric")      *)
(*   - azurerm_log_analytics_datasource_windows_performance_counter        *)
(*                                                     (kind "wpc")        *)
(* Each process is one host-engine run holding one ResourceData d (stored  *)
(* id, configuration, tracked state).  A handler is split at its remote    *)
(* calls: one action per remote call, with the local code that follows it. *)
(***************************************************************************)
EXTENDS Integers, Sequences, FiniteSets, TLC

\* ------------------------------------------------------------- bounds
MaxEnv == 1

\* -------------------------------------------------- program constants
MinIntervalSeconds == 10
MaxInt32 == 2147483647

\* two runs of the host engine, each making one invocation of a handler
Procs == {1, 2}
Kinds == {"fabric", "wpc"}
Names == {"n1"}
ResourceGroup == "rg1"
Parent == "p1"
Subscription == "sub1"

VARIABLES
    resourceKind,                 \* which of the two resources the run manages
    requireResourcesToBeImported, \* the provider-wide import-safety flag
    remote,                       \* Names -> remote resource (or absent)
    lro,                          \* Procs -> long-running operation handle
    envLeft,                      \* actions left to the other actors
    pc,                           \* Procs -> position in the handler
    op,                           \* Procs -> operation invoked
    dId,                          \* Procs -> d.Id()
    isNew,                        \* Procs -> d.IsNewResource()
    cfg,                          \* Procs -> configuration (d.Get)
    st,                           \* Procs -> tracked state (d.Set over d.Get)
    result,                       \* Procs -> what the invocation returned
    trace,                        \* Procs -> remote calls of the invocation
    sent,                         \* Procs -> properties submitted
    clean,                        \* Procs -> no interference since Start
    prior,                        \* Procs -> id and state at the handler's entry
    fetched,                      \* Procs -> the resource Read's Get returned
    errArgs                       \* Procs -> values formatted into the error

vars == <<resourceKind, requireResourcesToBeImported, remote, lro, envLeft,
          pc, op, dId, isNew, cfg, st, result, trace, sent, clean,
          prior, fetched, errArgs>>

\* ---------------------------------------------------- 64-bit integers
\* A Go int is 64 bits wide; a value is kept as hi * 2^30 + lo.
WideBase == 2^30

Wide(n) == [hi |-> n \div WideBase, lo |-> n % WideBase]

WideSucc(w) ==
    IF w.lo = WideBase - 1 THEN [hi |-> w.hi + 1, lo |-> 0]
    ELSE [hi |-> w.hi, lo |-> w.lo + 1]

WideLE(a, b) == a.hi < b.hi \/ (a.hi = b.hi /\ a.lo <= b.lo)

\* 2^53 = 2^23 * 2^30: up to it every integer is a float64.
Float64ExactHi == 2^23

\* encoding/json decodes a number of a loosely-typed document to float64
ToFloat64(w) ==
    IF w.hi < Float64ExactHi \/ (w.hi = Float64ExactHi /\ w.lo = 0) THEN w
    ELSE [hi |-> w.hi, lo |-> (w.lo \div 2) * 2]

\* ------------------------------------------------------------ strings
\* A location is a sequence of characters.
LowerChar(c) ==
    CASE c = "W" -> "w"
      [] c = "U" -> "u"
      [] c = "S" -> "s"
      [] OTHER -> c

RECURSIVE NormalizeChars(_)
NormalizeChars(s) ==
    IF s = <<>> THEN <<>>
    ELSE IF Head(s) = " " THEN NormalizeChars(Tail(s))
    ELSE <<LowerChar(Head(s))>> \o NormalizeChars(Tail(s))

azureRMNormalizeLocation(s) == NormalizeChars(s)

NilLocation == <<"<nil>">>
WestUS == <<"w", "e", "s", "t", "u", "s">>
WestUSDisplay == <<"W", "e", "s", "t", " ", "U", "S">>
Locations == {WestUS, WestUSDisplay}

\* -------------------------------------------------------- identifiers
\* A resource id is the sequence of the segments of its slash-delimited
\* path; the empty string is the empty sequence.
NoId == <<>>

ParentKey(k) == IF k = "fabric" THEN "vaults" ELSE "workspaces"
NameKey(k) == IF k = "fabric" THEN "replicationFabrics" ELSE "datasources"
Provider(k) ==
    IF k = "fabric" THEN "Microsoft.RecoveryServices"
    ELSE "Microsoft.OperationalInsights"

\* the id the remote API gives the resource called n
RemoteID(k, n) ==
    <<"subscriptions", Subscription, "resourceGroups", ResourceGroup,
      "providers", Provider(k), ParentKey(k), Parent, NameKey(k), n>>

HasSegment(id, key) ==
    \E i \in 1..Len(id) : i % 2 = 1 /\ i < Len(id) /\ id[i] = key /\ id[i + 1] # ""

Segment(id, key) ==
    IF HasSegment(id, key)
    THEN id[(CHOOSE i \in 1..Len(id) : i % 2 = 1 /\ i < Len(id) /\ id[i] = key) + 1]
    ELSE ""

\* parseAzureResourceID / parse.LogAnalyticsDataSourceID
ParseID(k, id) ==
    IF /\ Len(id) % 2 = 0
       /\ HasSegment(id, "subscriptions")
       /\ HasSegment(id, "resourceGroups")
       /\ HasSegment(id, ParentKey(k))
       /\ HasSegment(id, NameKey(k))
    THEN [ok |-> TRUE,
          resourceGroup |-> Segment(id, "resourceGroups"),
          parent |-> Segment(id, ParentKey(k)),
          name |-> Segment(id, NameKey(k))]
    ELSE [ok |-> FALSE, resourceGroup |-> "", parent |-> "", name |-> ""]

\* utils.ResponseWasNotFound
ResponseWasNotFound(resp) == resp = "notfound"

\* ----------------------------------------------------- property codec
\* A JSON value of a properties document; a key the document lacks is absent.
JStr(x) == [t |-> "string", s |-> x, n |-> Wide(0)]
JNum(w) == [t |-> "number", s |-> "", n |-> w]
JAbsent == [t |-> "absent", s |-> "", n |-> Wide(0)]

\* the struct with the tags of CounterName and InstanceName exchanged
EncodePropertySwapped(prop) ==
    [counterName |-> JStr(prop.InstanceName),
     instanceName |-> JStr(prop.CounterName),
     intervalSeconds |-> JNum(prop.IntervalSeconds),
     objectName |-> JStr(prop.ObjectName)]

\* json.Marshal of dataSourceWindowsPerformanceCounterProperty, by its tags
EncodeProperty(prop) ==
    [counterName |-> JStr(prop.CounterName),
     instanceName |-> JStr(prop.InstanceName),
     intervalSeconds |-> JNum(prop.IntervalSeconds),
     objectName |-> JStr(prop.ObjectName)]

\* the response body decoded into map[string]interface{}: numbers are float64
LooseValue(v) == IF v.t = "number" THEN JNum(ToFloat64(v.n)) ELSE v

LooseDocument(doc) ==
    [counterName |-> LooseValue(doc.counterName),
     instanceName |-> LooseValue(doc.instanceName),
     intervalSeconds |-> LooseValue(doc.intervalSeconds),
     objectName |-> LooseValue(doc.objectName)]

\* json.Unmarshal into a string field: absent keeps "", a non-string fails
StringField(v) ==
    IF v.t = "absent" THEN [ok |-> TRUE, s |-> ""]
    ELSE IF v.t = "string" THEN [ok |-> TRUE, s |-> v.s]
    ELSE [ok |-> FALSE, s |-> ""]

\* json.Unmarshal into an int field: absent keeps 0, a non-number fails
IntField(v) ==
    IF v.t = "absent" THEN [ok |-> TRUE, n |-> Wide(0)]
    ELSE IF v.t = "number" THEN [ok |-> TRUE, n |-> v.n]
    ELSE [ok |-> FALSE, n |-> Wide(0)]

\* structure.FlattenJsonToString then json.Unmarshal of the properties map
DecodeProperty(doc) ==
    LET cn == StringField(doc.counterName)
        inn == StringField(doc.instanceName)
        iv == IntField(doc.intervalSeconds)
        on == StringField(doc.objectName)
    IN [ok |-> cn.ok /\ inn.ok /\ iv.ok /\ on.ok,
        prop |-> [CounterName |-> cn.s, InstanceName |-> inn.s,
                  IntervalSeconds |-> iv.n, ObjectName |-> on.s]]

\* --------------------------------------------------------- validation
StringIsNotEmpty(x) == x # ""

IntBetween(min, max, w) == WideLE(Wide(min), w) /\ WideLE(w, Wide(max))

\* the validator with a lower bound of 1
IntervalSecondsAtLeastOne(w) == IntBetween(1, MaxInt32, w)

IntervalSecondsValid(w) == IntBetween(MinIntervalSeconds, MaxInt32, w)

\* the schema's ValidateFuncs over a configuration of kind k
Validate(k, c) ==
    IF k = "fabric" THEN TRUE
    ELSE /\ StringIsNotEmpty(c.name)
         /\ StringIsNotEmpty(c.counter_name)
         /\ StringIsNotEmpty(c.instance_name)
         /\ IntervalSecondsValid(c.interval_seconds)
         /\ StringIsNotEmpty(c.object_name)

\* ------------------------------------------------------ configurations
Intervals ==
    {Wide(5), Wide(MinIntervalSeconds), Wide(MaxInt32), WideSucc(Wide(MaxInt32))}

FabricConfigs ==
    {[name |-> n, resource_group_name |-> ResourceGroup, vault_name |-> Parent,
      location |-> l] : n \in Names, l \in Locations}

WpcConfigs ==
    {[name |-> n, resource_group_name |-> ResourceGroup, workspace_name |-> Parent,
      counter_name |-> "% Processor Time", instance_name |-> "_Total",
      interval_seconds |-> i, object_name |-> "Processor"] :
        n \in Names, i \in Intervals}

Configs(k) == IF k = "fabric" THEN FabricConfigs ELSE WpcConfigs

\* d.Get("vault_name") / d.Get("workspace_name")
ParentOf(k, c) == IF k = "fabric" THEN c.vault_name ELSE c.workspace_name

\* the record of a resource that is not tracked
NoState(k) ==
    IF k = "fabric"
    THEN [name |-> "", resource_group_name |-> "", vault_name |-> "",
          location |-> <<>>]
    ELSE [name |-> "", resource_group_name |-> "", workspace_name |-> "",
          counter_name |-> "", instance_name |-> "",
          interval_seconds |-> Wide(0), object_name |-> ""]

\* ------------------------------------------------------------- remote
Absent ==
    [exists |-> FALSE, details |-> "", location |-> NilLocation,
     hasProps |-> FALSE, properties |-> EncodeProperty(
        [CounterName |-> "", InstanceName |-> "", IntervalSeconds |-> Wide(0),
         ObjectName |-> ""])]

\* the fabric the remote holds after a creation with AzureFabricCreationInput
AzureFabric(location) ==
    [exists |-> TRUE, details |-> "Azure", location |-> location,
     hasProps |-> TRUE, properties |-> Absent.properties]

\* the data source the remote holds after CreateOrUpdate with these properties
DataSource(doc) ==
    [exists |-> TRUE, details |-> "WindowsPerformanceCounter",
     location |-> NilLocation, hasProps |-> TRUE, properties |-> doc]

\* the remote holds a resource called n
Exists(n) == n \in Names /\ remote[n].exists

\* what a Get of n answers: the resource or not-found, or a failure
GetResponses(n) ==
    (IF Exists(n) THEN {"found"} ELSE {"notfound"}) \cup {"error"}

NoLro == [state |-> "none", call |-> "", name |-> "", res |-> Absent]

\* --------------------------------------------------------------- Init
Init ==
    /\ resourceKind \in Kinds
    /\ requireResourcesToBeImported \in
           (IF resourceKind = "fabric" THEN BOOLEAN ELSE {TRUE})
    /\ remote = [n \in Names |-> Absent]
    /\ lro = [p \in Procs |-> NoLro]
    /\ envLeft = MaxEnv
    /\ pc = [p \in Procs |-> "idle"]
    /\ op = [p \in Procs |-> "none"]
    /\ dId = [p \in Procs |-> NoId]
    /\ isNew = [p \in Procs |-> FALSE]
    /\ cfg = [p \in Procs |-> NoState(resourceKind)]
    /\ st = [p \in Procs |-> NoState(resourceKind)]
    /\ result = [p \in Procs |-> "none"]
    /\ trace = [p \in Procs |-> <<>>]
    /\ sent = [p \in Procs |-> Absent.properties]
    /\ clean = [p \in Procs |-> TRUE]
    /\ prior = [p \in Procs |-> [id |-> NoId, st |-> NoState(resourceKind)]]
    /\ fetched = [p \in Procs |-> Absent]
    /\ errArgs = [p \in Procs |-> <<>>]

\* ------------------------------------------------------------ helpers
Active(p) == pc[p] \notin {"idle", "done"}

\* the identifier an invocation works on
Target(p) ==
    IF op[p] \in {"Create", "Update"} THEN cfg[p].name
    ELSE ParseID(resourceKind, dId[p]).name

\* a change of the remote resource n by p (0: another actor) interferes with
\* every other invocation in flight on n
Touch(n, p) ==
    clean' = [q \in Procs |->
                IF q # p /\ Active(q) /\ Target(q) = n THEN FALSE ELSE clean[q]]

\* a remote call on n, made at the handler's current position; live tells
\* whether n existed remotely when the call was answered
Log(p, n, call, resp) ==
    trace' = [trace EXCEPT ![p] =
                Append(@, [step |-> pc[p], call |-> call, resp |-> resp,
                           live |-> Exists(n)])]

Goto(p, label) == pc' = [pc EXCEPT ![p] = label] /\ UNCHANGED <<result, errArgs>>

\* the error messages that leave out the parent
ErrorArgsNoParent(k, step, r, name, rg, parent) ==
    IF r \in {"ok", "ValidationFailed", "MalformedID", "Panic"} THEN <<>>
    ELSE IF r = "AlreadyExists" THEN RemoteID(k, name)
    ELSE <<name, rg>>

\* the values the error returned at a handler position is formatted with, in
\* the order of its arguments; tf.ImportAsExistsError carries the resource id,
\* the error of the id parser is returned as it is
ErrorArgs(k, step, r, name, rg, parent) ==
    IF r \in {"ok", "ValidationFailed", "MalformedID", "Panic"} THEN <<>>
    ELSE IF r = "AlreadyExists" THEN RemoteID(k, name)
    ELSE IF k = "fabric"
    THEN CASE step = "check" -> <<name, rg, name>>
           [] step = "read" -> <<name, rg, parent>>
           [] OTHER -> <<name, parent, rg>>
    ELSE CASE step = "get" -> <<name, rg>>
           [] OTHER -> <<name, rg, parent>>

Finish(p, r) ==
    /\ pc' = [pc EXCEPT ![p] = "done"]
    /\ result' = [result EXCEPT ![p] = r]
    /\ LET id == ParseID(resourceKind, dId[p])
           fromCfg == pc[p] \in {"idle", "check", "submit", "wait", "result", "get"}
       IN errArgs' = [errArgs EXCEPT ![p] =
             IF fromCfg
             THEN ErrorArgs(resourceKind, pc[p], r, cfg[p].name,
                            cfg[p].resource_group_name, ParentOf(resourceKind, cfg[p]))
             ELSE ErrorArgs(resourceKind, pc[p], r, id.name, id.resourceGroup,
                            id.parent)]

\* the runs are numbered in the order in which the host starts them; a Read
\* changes nothing another run can see, so the run that comes second is one of
\* Create, Update or Delete
Begin(p, o) ==
    /\ pc[p] = "idle"
    /\ \A q \in Procs : q < p => (pc[q] # "idle" /\ o # "Read")
    /\ op' = [op EXCEPT ![p] = o]
    /\ isNew' = [isNew EXCEPT ![p] = (o = "Create")]

\* ---------------------------------------------------- host: entry points
\* ids a user may hand to import: the ids of the resources, and paths that
\* lack the resource-name segment, the parent segment, the resource group
MalformedId(k) == SubSeq(RemoteID(k, "n1"), 1, 8)

MalformedIds(k) ==
    {MalformedId(k),
     SubSeq(RemoteID(k, "n1"), 1, 6) \o SubSeq(RemoteID(k, "n1"), 9, 10),
     SubSeq(RemoteID(k, "n1"), 1, 2) \o SubSeq(RemoteID(k, "n1"), 5, 10)}

ImportIds(k) == {RemoteID(k, n) : n \in Names} \cup MalformedIds(k)

\* a handler that goes on with whatever the parser returned
IdErrorIgnored(id) == FALSE

\* if err != nil { return err } after the parse of d.Id()
IdError(id) == ~id.ok

\* the fabric imports any string (ImportStatePassthrough); the data source
\* parses the id first (ValidateResourceIDPriorToImport)
ImportAccepts(k, id) == IF k = "fabric" THEN TRUE ELSE ParseID(k, id).ok

\* the state an earlier Read left for a resource created from c
Refreshed(k, c) ==
    IF k = "fabric" THEN [c EXCEPT !.location = azureRMNormalizeLocation(@)] ELSE c

\* the records the host may hold of a tracked resource: an id just imported,
\* with no state yet, or the id and state an earlier apply left
TrackedRecords(k) ==
    {[id |-> i, st |-> NoState(k)] : i \in {j \in ImportIds(k) : ImportAccepts(k, j)}}
    \cup
    {[id |-> RemoteID(k, c.name), st |-> Refreshed(k, c)] :
        c \in {x \in Configs(k) : Validate(k, x)}}

\* the existence check is made under the import-safety guard only
GuardApplies(k, flag, new) == IF k = "fabric" THEN flag /\ new ELSE new

\* a handler that goes straight to the submission
CreateEntryNoCheck(k, flag, new) == "submit"

CreateEntry(k, flag, new) == IF GuardApplies(k, flag, new) THEN "check" ELSE "submit"

\* Create is invoked on a resource with no stored id; the schema is validated
\* before the handler runs
StartCreate(p) ==
    /\ Begin(p, "Create")
    /\ \E c \in Configs(resourceKind) :
        /\ cfg' = [cfg EXCEPT ![p] = c]
        /\ IF Validate(resourceKind, c)
           THEN /\ st' = [st EXCEPT ![p] = c]
                /\ prior' = [prior EXCEPT ![p] = [id |-> NoId, st |-> c]]
                /\ Goto(p, CreateEntry(resourceKind, requireResourcesToBeImported, TRUE))
           ELSE /\ UNCHANGED <<st, prior>>
                /\ Finish(p, "ValidationFailed")
    /\ UNCHANGED <<resourceKind, requireResourcesToBeImported, fetched, remote, lro,
                   envLeft, dId, trace, sent, clean>>

\* Update: the data source only; name and workspace are ForceNew
StartUpdate(p) ==
    /\ resourceKind = "wpc"
    /\ Begin(p, "Update")
    /\ \E r \in TrackedRecords(resourceKind), c \in Configs(resourceKind) :
        /\ c.name = r.st.name
        /\ c # r.st
        /\ dId' = [dId EXCEPT ![p] = r.id]
        /\ cfg' = [cfg EXCEPT ![p] = c]
        /\ IF Validate(resourceKind, c)
           THEN /\ st' = [st EXCEPT ![p] = c]
                /\ prior' = [prior EXCEPT ![p] = [id |-> r.id, st |-> c]]
                /\ Goto(p, CreateEntry(resourceKind, requireResourcesToBeImported, FALSE))
           ELSE /\ st' = [st EXCEPT ![p] = r.st]
                /\ prior' = [prior EXCEPT ![p] = [id |-> r.id, st |-> r.st]]
                /\ Finish(p, "ValidationFailed")
    /\ UNCHANGED <<resourceKind, requireResourcesToBeImported, fetched, remote, lro,
                   envLeft, trace, sent, clean>>

StartRead(p) ==
    /\ Begin(p, "Read")
    /\ \E r \in TrackedRecords(resourceKind) :
        /\ dId' = [dId EXCEPT ![p] = r.id]
        /\ st' = [st EXCEPT ![p] = r.st]
        /\ prior' = [prior EXCEPT ![p] = [id |-> r.id, st |-> r.st]]
    /\ Goto(p, "read")
    /\ UNCHANGED <<resourceKind, requireResourcesToBeImported, fetched, remote, lro,
                   envLeft, cfg, trace, sent, clean>>

StartDelete(p) ==
    /\ Begin(p, "Delete")
    /\ \E r \in TrackedRecords(resourceKind) :
        /\ dId' = [dId EXCEPT ![p] = r.id]
        /\ st' = [st EXCEPT ![p] = r.st]
        /\ prior' = [prior EXCEPT ![p] = [id |-> r.id, st |-> r.st]]
    /\ Goto(p, "delete")
    /\ UNCHANGED <<resourceKind, requireResourcesToBeImported, fetched, remote, lro,
                   envLeft, cfg, trace, sent, clean>>

\* --------------------------------------------- replication fabric: Create
\* the id in the body of a Get response
ResponseID(k, n, resp) == IF resp = "found" THEN RemoteID(k, n) ELSE NoId

\* the check without its test of existing.ID
FabricCheckOutcomeNoIdTest(resp, existingId) ==
    IF resp # "found" /\ ~ResponseWasNotFound(resp) THEN "CheckFailed"
    ELSE "proceed"

\* lines 68-77: err is set unless the Get found the resource
FabricCheckOutcome(resp, existingId) ==
    IF resp # "found" /\ ~ResponseWasNotFound(resp) THEN "CheckFailed"
    ELSE IF existingId # NoId THEN "AlreadyExists"
    ELSE "proceed"

FabricCreateCheck(p) ==
    /\ resourceKind = "fabric"
    /\ pc[p] = "check"
    /\ \E resp \in GetResponses(cfg[p].name) :
        LET out == FabricCheckOutcome(resp, ResponseID("fabric", cfg[p].name, resp))
        IN /\ Log(p, cfg[p].name, "Get", resp)
           /\ IF out = "proceed" THEN Goto(p, "submit") ELSE Finish(p, out)
    /\ UNCHANGED <<resourceKind, requireResourcesToBeImported, prior, fetched, remote, lro, envLeft,
                   op, dId, isNew, cfg, st, sent, clean>>

\* client.Create: the request is accepted, giving a future, or refused
FabricCreateSubmit(p) ==
    /\ resourceKind = "fabric"
    /\ pc[p] = "submit"
    /\ \E resp \in {"accepted", "error"} :
        /\ Log(p, cfg[p].name, "Create", resp)
        /\ IF resp = "accepted"
           THEN /\ lro' = [lro EXCEPT ![p] =
                            [state |-> "pending", call |-> "Create",
                             name |-> cfg[p].name,
                             res |-> AzureFabric(cfg[p].location)]]
                /\ Goto(p, "wait")
           ELSE /\ UNCHANGED lro
                /\ Finish(p, "RemoteOperationFailed")
    /\ UNCHANGED <<resourceKind, requireResourcesToBeImported, prior, fetched, remote, envLeft,
                   op, dId, isNew, cfg, st, sent, clean>>

\* the remote side ends a long-running operation
LroOutcomes(h) ==
    IF h.call = "Create" \/ Exists(h.name) THEN {"succeeded", "failed"}
    ELSE {"succeeded", "failed", "notfound"}

RemoteLro(p) ==
    /\ lro[p].state = "pending"
    /\ \E o \in LroOutcomes(lro[p]) :
        /\ lro' = [lro EXCEPT ![p].state = o]
        /\ IF o = "succeeded"
           THEN /\ remote' = [remote EXCEPT ![lro[p].name] =
                                IF lro[p].call = "Create" THEN lro[p].res ELSE Absent]
                /\ Touch(lro[p].name, p)
           ELSE UNCHANGED <<remote, clean>>
    /\ UNCHANGED <<resourceKind, requireResourcesToBeImported, prior, fetched, envLeft, pc, op,
                   dId, isNew, cfg, st, result, errArgs, trace, sent>>

\* future.WaitForCompletionRef returns when the operation has ended
WaitResponse(h) == IF h.state = "succeeded" THEN "ok"
                   ELSE IF h.state = "notfound" THEN "notfound" ELSE "error"

FabricCreateWait(p) ==
    /\ resourceKind = "fabric"
    /\ pc[p] = "wait"
    /\ lro[p].state \notin {"none", "pending"}
    /\ Log(p, lro[p].name, "Wait", WaitResponse(lro[p]))
    /\ IF WaitResponse(lro[p]) = "ok" THEN Goto(p, "result")
       ELSE Finish(p, "RemoteOperationFailed")
    /\ lro' = [lro EXCEPT ![p] = NoLro]
    /\ UNCHANGED <<resourceKind, requireResourcesToBeImported, prior, fetched, remote, envLeft,
                   op, dId, isNew, cfg, st, sent, clean>>

\* the id set before the error of Result is looked at
FabricResultIdEarly(cur, resp, id) == RemoteID("fabric", "n1")

\* lines 103-109: d.SetId(*result.ID) once Result has succeeded
FabricResultId(cur, resp, id) == IF resp = "found" THEN id ELSE cur

\* future.Result fetches the created fabric
FabricCreateResult(p) ==
    /\ resourceKind = "fabric"
    /\ pc[p] = "result"
    /\ \E resp \in GetResponses(cfg[p].name) :
        /\ Log(p, Target(p), "Result", resp)
        /\ dId' = [dId EXCEPT ![p] =
                    FabricResultId(@, resp, ResponseID("fabric", cfg[p].name, resp))]
        /\ IF resp = "found" THEN Goto(p, "read")
           ELSE Finish(p, "RemoteOperationFailed")
    /\ UNCHANGED <<resourceKind, requireResourcesToBeImported, prior, fetched, remote, lro, envLeft,
                   op, isNew, cfg, st, sent, clean>>

\* ----------------------------------------------- replication fabric: Read
\* Read storing the location as the remote spells it
FabricFlattenRaw(s, id, n, res) ==
    [s EXCEPT !.name = n,
              !.resource_group_name = id.resourceGroup,
              !.vault_name = id.parent,
              !.location = IF res.details = "Azure" /\ res.location # NilLocation
                           THEN res.location
                           ELSE @]

\* lines 139-147: the fields Read sets from a fetched fabric
FabricFlatten(s, id, n, res) ==
    [s EXCEPT !.name = n,
              !.resource_group_name = id.resourceGroup,
              !.vault_name = id.parent,
              !.location = IF res.details = "Azure" /\ res.location # NilLocation
                           THEN azureRMNormalizeLocation(res.location)
                           ELSE @]

\* Read without its d.SetId("")
FabricReadIdKept(cur, resp) == cur

\* lines 129-137: the id and the error Read leaves after its Get
FabricReadId(cur, resp) ==
    IF resp # "found" /\ ResponseWasNotFound(resp) THEN NoId ELSE cur

\* resp.Properties.CustomDetails.AsAzureFabricSpecificDetails() dereferences
\* the properties and calls a method of the details: without either it panics
FabricReadResult(resp, res) ==
    IF resp # "found" /\ ~ResponseWasNotFound(resp) THEN "ReadFailed"
    ELSE IF resp = "found" /\ (~res.hasProps \/ res.details = "") THEN "Panic"
    ELSE "ok"

FabricRead(p) ==
    /\ resourceKind = "fabric"
    /\ pc[p] = "read"
    /\ LET id == ParseID("fabric", dId[p])
       IN IF IdError(id)
          THEN /\ Finish(p, "MalformedID")
               /\ UNCHANGED <<dId, st, trace, fetched>>
          ELSE \E resp \in GetResponses(id.name) :
                LET res == IF resp = "found" THEN remote[id.name] ELSE Absent
                IN /\ Log(p, id.name, "Get", resp)
                   /\ fetched' = [fetched EXCEPT ![p] = res]
                   /\ dId' = [dId EXCEPT ![p] = FabricReadId(@, resp)]
                   /\ st' = [st EXCEPT ![p] =
                               IF resp = "found"
                               THEN FabricFlatten(@, id, id.name, res)
                               ELSE @]
                   /\ Finish(p, FabricReadResult(resp, res))
    /\ UNCHANGED <<resourceKind, requireResourcesToBeImported, prior, remote, lro,
                   envLeft, op, isNew, cfg, sent, clean>>

\* --------------------------------------------- replication fabric: Delete
\* what a delete of n answers
DeleteResponses(n, accepted) ==
    {accepted, "error"} \cup (IF Exists(n) THEN {} ELSE {"notfound"})

FabricDeleteSubmit(p) ==
    /\ resourceKind = "fabric"
    /\ pc[p] = "delete"
    /\ LET id == ParseID("fabric", dId[p])
       IN IF IdError(id)
          THEN /\ Finish(p, "MalformedID")
               /\ UNCHANGED <<lro, trace>>
          ELSE \E resp \in DeleteResponses(id.name, "accepted") :
                /\ Log(p, id.name, "Delete", resp)
                /\ IF resp = "accepted"
                   THEN /\ lro' = [lro EXCEPT ![p] =
                                    [state |-> "pending", call |-> "Delete",
                                     name |-> id.name, res |-> Absent]]
                        /\ Goto(p, "delwait")
                   ELSE /\ UNCHANGED lro
                        /\ Finish(p, "RemoteOperationFailed")
    /\ UNCHANGED <<resourceKind, requireResourcesToBeImported, prior, fetched, remote, envLeft,
                   op, dId, isNew, cfg, st, sent, clean>>

FabricDeleteWait(p) ==
    /\ resourceKind = "fabric"
    /\ pc[p] = "delwait"
    /\ lro[p].state \notin {"none", "pending"}
    /\ Log(p, lro[p].name, "Wait", WaitResponse(lro[p]))
    /\ IF WaitResponse(lro[p]) = "ok" THEN Goto(p, "delresult")
       ELSE Finish(p, "RemoteOperationFailed")
    /\ lro' = [lro EXCEPT ![p] = NoLro]
    /\ UNCHANGED <<resourceKind, requireResourcesToBeImported, prior, fetched, remote, envLeft,
                   op, dId, isNew, cfg, st, sent, clean>>

\* a Delete that drops the id whatever the outcome
DeleteIdCleared(cur, out) == NoId

\* the id Delete leaves: neither handler calls d.SetId
DeleteId(cur, out) == cur

\* lines 176-184: a failed Result is an error unless it was not-found
FabricDeleteOutcome(resp) ==
    IF resp # "ok" /\ ~ResponseWasNotFound(resp) THEN "RemoteOperationFailed"
    ELSE "ok"

FabricDeleteResult(p) ==
    /\ resourceKind = "fabric"
    /\ pc[p] = "delresult"
    /\ \E resp \in DeleteResponses(Target(p), "ok") :
        /\ Log(p, Target(p), "Result", resp)
        /\ dId' = [dId EXCEPT ![p] = DeleteId(@, FabricDeleteOutcome(resp))]
        /\ Finish(p, FabricDeleteOutcome(resp))
    /\ UNCHANGED <<resourceKind, requireResourcesToBeImported, prior, fetched, remote, lro,
                   envLeft, op, isNew, cfg, st, sent, clean>>

\* ------------------------------- windows performance counter: CreateUpdate
\* the check that goes on after any failure of its Get
WpcCheckOutcomeLenient(resp) ==
    IF resp = "found" THEN "AlreadyExists" ELSE "proceed"

\* lines 105-114
WpcCheckOutcome(resp) ==
    IF resp # "found" /\ ~ResponseWasNotFound(resp) THEN "CheckFailed"
    ELSE IF ~ResponseWasNotFound(resp) THEN "AlreadyExists"
    ELSE "proceed"

WpcCreateCheck(p) ==
    /\ resourceKind = "wpc"
    /\ pc[p] = "check"
    /\ \E resp \in GetResponses(cfg[p].name) :
        /\ Log(p, cfg[p].name, "Get", resp)
        /\ IF WpcCheckOutcome(resp) = "proceed" THEN Goto(p, "submit")
           ELSE Finish(p, WpcCheckOutcome(resp))
    /\ UNCHANGED <<resourceKind, requireResourcesToBeImported, prior, fetched, remote, lro, envLeft,
                   op, dId, isNew, cfg, st, sent, clean>>

\* lines 117-122: the typed properties, from the configuration
PropertyOf(c) ==
    [CounterName |-> c.counter_name, InstanceName |-> c.instance_name,
     IntervalSeconds |-> c.interval_seconds, ObjectName |-> c.object_name]

\* client.CreateOrUpdate is synchronous: the remote stores the document
WpcSubmit(p) ==
    /\ resourceKind = "wpc"
    /\ pc[p] = "submit"
    /\ \E resp \in {"ok", "error"} :
        /\ Log(p, cfg[p].name, "CreateOrUpdate", resp)
        /\ IF resp = "ok"
           THEN /\ remote' = [remote EXCEPT ![cfg[p].name] =
                                DataSource(EncodeProperty(PropertyOf(cfg[p])))]
                /\ sent' = [sent EXCEPT ![p] = EncodeProperty(PropertyOf(cfg[p]))]
                /\ Touch(cfg[p].name, p)
                /\ Goto(p, "get")
           ELSE /\ UNCHANGED <<remote, sent, clean>>
                /\ Finish(p, "RemoteOperationFailed")
    /\ UNCHANGED <<resourceKind, requireResourcesToBeImported, prior, fetched, lro, envLeft,
                   op, dId, isNew, cfg, st>>

\* lines 133-142: fetch the data source and keep its id
WpcGetOutcome(resp, id) ==
    IF resp # "found" THEN "RemoteOperationFailed"
    ELSE IF id = NoId THEN "NoID"
    ELSE "proceed"

WpcGet(p) ==
    /\ resourceKind = "wpc"
    /\ pc[p] = "get"
    /\ \E resp \in GetResponses(cfg[p].name) :
        LET id == ResponseID("wpc", cfg[p].name, resp)
        IN /\ Log(p, cfg[p].name, "Get", resp)
           /\ IF WpcGetOutcome(resp, id) = "proceed"
              THEN dId' = [dId EXCEPT ![p] = id] /\ Goto(p, "read")
              ELSE UNCHANGED dId /\ Finish(p, WpcGetOutcome(resp, id))
    /\ UNCHANGED <<resourceKind, requireResourcesToBeImported, prior, fetched, remote, lro, envLeft,
                   op, isNew, cfg, st, sent, clean>>

\* -------------------------------------- windows performance counter: Read
\* Read that sets the fields of the id only
WpcFlattenStale(s, id, n, res) ==
    [ok |-> TRUE,
     st |-> [s EXCEPT !.name = n,
                      !.resource_group_name = id.resourceGroup,
                      !.workspace_name = id.parent]]

\* lines 168-186: the fields Read sets from a fetched data source
WpcFlatten(s, id, n, res) ==
    LET base == [s EXCEPT !.name = n,
                          !.resource_group_name = id.resourceGroup,
                          !.workspace_name = id.parent]
        dec == DecodeProperty(LooseDocument(res.properties))
    IN IF ~res.hasProps THEN [ok |-> TRUE, st |-> base]
       ELSE IF ~dec.ok THEN [ok |-> FALSE, st |-> base]
       ELSE [ok |-> TRUE,
             st |-> [base EXCEPT !.counter_name = dec.prop.CounterName,
                                 !.instance_name = dec.prop.InstanceName,
                                 !.interval_seconds = dec.prop.IntervalSeconds,
                                 !.object_name = dec.prop.ObjectName]]

\* lines 157-166: the id and the error Read leaves after its Get
WpcReadId(cur, resp) ==
    IF resp # "found" /\ ResponseWasNotFound(resp) THEN NoId ELSE cur

WpcReadResult(resp, decoded) ==
    IF resp # "found" /\ ~ResponseWasNotFound(resp) THEN "ReadFailed"
    ELSE IF resp = "found" /\ ~decoded THEN "DecodeFailed"
    ELSE "ok"

WpcRead(p) ==
    /\ resourceKind = "wpc"
    /\ pc[p] = "read"
    /\ LET id == ParseID("wpc", dId[p])
       IN IF IdError(id)
          THEN /\ Finish(p, "MalformedID")
               /\ UNCHANGED <<dId, st, trace, fetched>>
          ELSE \E resp \in GetResponses(id.name) :
                LET res == IF resp = "found" THEN remote[id.name] ELSE Absent
                    out == WpcFlatten(st[p], id, id.name, res)
                IN /\ Log(p, id.name, "Get", resp)
                   /\ fetched' = [fetched EXCEPT ![p] = res]
                   /\ dId' = [dId EXCEPT ![p] = WpcReadId(@, resp)]
                   /\ st' = [st EXCEPT ![p] = IF resp = "found" THEN out.st ELSE @]
                   /\ Finish(p, WpcReadResult(resp, out.ok))
    /\ UNCHANGED <<resourceKind, requireResourcesToBeImported, prior, remote, lro,
                   envLeft, op, isNew, cfg, sent, clean>>

\* ------------------------------------ windows performance counter: Delete
\* lines 201-205: any failure of client.Delete is returned
WpcDeleteOutcome(resp) == IF resp # "ok" THEN "RemoteOperationFailed" ELSE "ok"

WpcDelete(p) ==
    /\ resourceKind = "wpc"
    /\ pc[p] = "delete"
    /\ LET id == ParseID("wpc", dId[p])
       IN IF IdError(id)
          THEN /\ Finish(p, "MalformedID")
               /\ UNCHANGED <<remote, trace, clean, dId>>
          ELSE \E resp \in DeleteResponses(id.name, "ok") :
                /\ Log(p, id.name, "Delete", resp)
                /\ dId' = [dId EXCEPT ![p] = DeleteId(@, WpcDeleteOutcome(resp))]
                /\ IF resp = "ok" /\ Exists(id.name)
                   THEN /\ remote' = [remote EXCEPT ![id.name] = Absent]
                        /\ Touch(id.name, p)
                   ELSE UNCHANGED <<remote, clean>>
                /\ Finish(p, WpcDeleteOutcome(resp))
    /\ UNCHANGED <<resourceKind, requireResourcesToBeImported, prior, fetched, lro,
                   envLeft, op, isNew, cfg, st, sent>>

\* ------------------------------------------------------- other actors
\* resources other actors leave at the remote: a fabric created with a display
\* name as location, one of another instance type, one without a location,
\* one without properties; a
\* data source with other properties, with a field missing, with a field of
\* the wrong shape, or without properties
ServerProperty ==
    [CounterName |-> "Disk Reads/sec", InstanceName |-> "*",
     IntervalSeconds |-> Wide(1), ObjectName |-> "LogicalDisk"]

EnvResources(k) ==
    IF k = "fabric"
    THEN {AzureFabric(WestUSDisplay),
          [AzureFabric(NilLocation) EXCEPT !.details = "VMware"],
          AzureFabric(NilLocation),
          [AzureFabric(NilLocation) EXCEPT !.details = "", !.hasProps = FALSE]}
    ELSE {DataSource(EncodeProperty(ServerProperty)),
          DataSource([EncodeProperty(ServerProperty) EXCEPT !.objectName = JAbsent]),
          DataSource([EncodeProperty(ServerProperty) EXCEPT
                         !.intervalSeconds = JStr("60")]),
          [DataSource(Absent.properties) EXCEPT !.hasProps = FALSE]}

\* another actor's change is of interest before the first run starts and
\* while a handler is running
Pending == (\E p \in Procs : Active(p)) \/ (\A p \in Procs : pc[p] = "idle")

EnvPut(n) ==
    /\ envLeft > 0
    /\ Pending
    /\ \E r \in EnvResources(resourceKind) : remote' = [remote EXCEPT ![n] = r]
    /\ envLeft' = envLeft - 1
    /\ Touch(n, 0)
    /\ UNCHANGED <<resourceKind, requireResourcesToBeImported, prior, fetched, lro, pc, op,
                   dId, isNew, cfg, st, result, errArgs, trace, sent>>

EnvDelete(n) ==
    /\ envLeft > 0
    /\ Pending
    /\ remote[n].exists
    /\ remote' = [remote EXCEPT ![n] = Absent]
    /\ envLeft' = envLeft - 1
    /\ Touch(n, 0)
    /\ UNCHANGED <<resourceKind, requireResourcesToBeImported, prior, fetched, lro, pc, op,
                   dId, isNew, cfg, st, result, errArgs, trace, sent>>

\* --------------------------------------------------------------- Next
Next ==
    \/ \E p \in Procs : StartCreate(p)
    \/ \E p \in Procs : StartUpdate(p)
    \/ \E p \in Procs : StartRead(p)
    \/ \E p \in Procs : StartDelete(p)
    \/ \E p \in Procs : FabricCreateCheck(p)
    \/ \E p \in Procs : FabricCreateSubmit(p)
    \/ \E p \in Procs : RemoteLro(p)
    \/ \E p \in Procs : FabricCreateWait(p)
    \/ \E p \in Procs : FabricCreateResult(p)
    \/ \E p \in Procs : FabricRead(p)
    \/ \E p \in Procs : FabricDeleteSubmit(p)
    \/ \E p \in Procs : FabricDeleteWait(p)
    \/ \E p \in Procs : FabricDeleteResult(p)
    \/ \E p \in Procs : WpcCreateCheck(p)
    \/ \E p \in Procs : WpcSubmit(p)
    \/ \E p \in Procs : WpcGet(p)
    \/ \E p \in Procs : WpcRead(p)
    \/ \E p \in Procs : WpcDelete(p)
    \/ \E n \in Names : EnvPut(n)
    \/ \E n \in Names : EnvDelete(n)

Spec == Init /\ [][Next]_vars

\* a step of the handler process p runs; the host runs a handler it has invoked
\* up to its return, while nothing makes the remote side end an operation
HandlerStep(p) ==
    \/ FabricCreateCheck(p) \/ FabricCreateSubmit(p) \/ FabricCreateWait(p)
    \/ FabricCreateResult(p) \/ FabricRead(p)
    \/ FabricDeleteSubmit(p) \/ FabricDeleteWait(p) \/ FabricDeleteResult(p)
    \/ WpcCreateCheck(p) \/ WpcSubmit(p) \/ WpcGet(p) \/ WpcRead(p)
    \/ WpcDelete(p)

FairSpec == Spec /\ \A p \in Procs : WF_vars(HandlerStep(p))

\* ===================================================================
\* Claims
\* ===================================================================
Done(p) == pc[p] = "done"

Guarded(p) == GuardApplies(resourceKind, requireResourcesToBeImported, isNew[p])

MutatingCalls == {"Create", "CreateOrUpdate", "Delete"}

Mutations(p) == {i \in 1..Len(trace[p]) : trace[p][i].call \in MutatingCalls}

Steps(p) == [i \in 1..Len(trace[p]) |-> trace[p][i].step]

LastCall(p) == trace[p][Len(trace[p])]

\* Create made its existence check while the identifier existed remotely
CheckedWhileLive(p) ==
    /\ op[p] = "Create"
    /\ Guarded(p)
    /\ Len(trace[p]) >= 1
    /\ trace[p][1].step = "check"
    /\ trace[p][1].live

\* C1 as stated: a guarded Create on an identifier that exists remotely returns
\* AlreadyExists, issues no mutating remote call and leaves the id unset.
C1_ExistingAlwaysAlreadyExists ==
    \A p \in Procs :
        CheckedWhileLive(p) =>
            /\ Done(p)
            /\ result[p] = "AlreadyExists"
            /\ Mutations(p) = {}
            /\ dId[p] = NoId

\* C1 amended: a guarded Create on an identifier that exists remotely returns an
\* error, AlreadyExists when the check's Get returned the resource and the
\* check's own error when that Get failed; the existence check is its only
\* remote call, and the id stays unset.
C1_ExistingNeverCreated ==
    \A p \in Procs :
        CheckedWhileLive(p) =>
            /\ Done(p)
            /\ result[p] = (IF trace[p][1].resp = "found" THEN "AlreadyExists"
                            ELSE "CheckFailed")
            /\ Len(trace[p]) = 1
            /\ Mutations(p) = {}
            /\ dId[p] = NoId

C1_Witness ==
    \E p \in Procs : CheckedWhileLive(p) /\ Done(p) /\ result[p] = "AlreadyExists"

\* C2 as stated: of the guarded Create invocations for one identifier, at most
\* one returns success holding the identifier as its key.
C2_AtMostOneCreateSucceeds ==
    \A p, q \in Procs :
        (/\ p # q
         /\ op[p] = "Create" /\ op[q] = "Create"
         /\ Guarded(p) /\ Guarded(q)
         /\ cfg[p].name = cfg[q].name
         /\ Done(p) /\ Done(q)
         /\ result[p] = "ok" /\ dId[p] # NoId)
        => ~(result[q] = "ok" /\ dId[q] = dId[p])

\* a Delete whose last answer from the remote was not-found
DeleteSawNotFound(p) ==
    /\ op[p] = "Delete"
    /\ Done(p)
    /\ trace[p] # <<>>
    /\ LastCall(p).resp = "notfound"

\* C3 as stated: when Delete is called twice on one stored id and the second
\* call observes not-found from the remote, both calls return success.
C3_DeleteIdempotent ==
    \A p, q \in Procs :
        (/\ p # q
         /\ op[q] = "Delete" /\ Done(q) /\ result[q] = "ok"
         /\ trace[q] # <<>> /\ trace[q][1].live
         /\ dId[p] = dId[q]
         /\ DeleteSawNotFound(p))
        => result[p] = "ok"

\* the Get of Read (alone, or at the end of Create and Update) said not-found
ReadSawNotFound(p) ==
    /\ Done(p)
    /\ trace[p] # <<>>
    /\ LastCall(p).step = "read"
    /\ LastCall(p).resp = "notfound"

\* C4: a Read of a well-formed id that the remote reports missing clears the
\* record's id and returns no error.
C4_ReadNotFoundDropsRecord ==
    \A p \in Procs : ReadSawNotFound(p) => result[p] = "ok" /\ dId[p] = NoId

C4_Witness ==
    \E p \in Procs : op[p] = "Read" /\ ReadSawNotFound(p) /\ dId[p] = NoId

CreateFailed(p) == op[p] = "Create" /\ Done(p) /\ result[p] # "ok"

\* C5 as stated: whenever Create returns an error, the record's id is not set.
C5_FailedCreateLeavesNoId ==
    \A p \in Procs : CreateFailed(p) => dId[p] = NoId

\* C5 amended: when Create returns an error from validation, the existence
\* check, the submission, the polling or the fetch of the result, the id is not
\* set; when the error comes from the trailing Read, the id stays set to the id
\* of the created resource.
C5_FailedCreateIdByStage ==
    \A p \in Procs :
        CreateFailed(p) =>
            dId[p] = (IF trace[p] # <<>> /\ LastCall(p).step = "read"
                      THEN RemoteID(resourceKind, cfg[p].name) ELSE NoId)

C5_Witness ==
    \E p \in Procs :
        /\ CreateFailed(p) /\ trace[p] # <<>>
        /\ LastCall(p).step = "result" /\ dId[p] = NoId
CreateSucceeded(p) == op[p] = "Create" /\ Done(p) /\ result[p] = "ok"

\* C6 as stated: whenever Create returns success, the record's id is the
\* non-empty id the remote gave the created resource, also when another actor
\* deletes the resource before the trailing Read.
C6_SuccessfulCreateHoldsId ==
    \A p \in Procs :
        CreateSucceeded(p) => dId[p] = RemoteID(resourceKind, cfg[p].name)

\* the handler positions of a Create with every step made
AllSteps(k) ==
    IF k = "fabric" THEN <<"check", "submit", "wait", "result", "read">>
    ELSE <<"check", "submit", "get", "read">>

\* the handler positions of a Create, the existence check made under the guard
GuardedSteps(k, guard) == IF guard THEN AllSteps(k) ELSE Tail(AllSteps(k))

Calls(p) == [i \in 1..Len(trace[p]) |-> trace[p][i].call]

StepCalls(k, steps) ==
    [i \in 1..Len(steps) |->
        CASE steps[i] = "check" -> "Get"
          [] steps[i] = "submit" -> IF k = "fabric" THEN "Create" ELSE "CreateOrUpdate"
          [] steps[i] = "wait" -> "Wait"
          [] steps[i] = "result" -> "Result"
          [] OTHER -> "Get"]

\* C7 as stated: every Create that returns success made the existence check,
\* the submission, the wait for completion and the read, in this order.
C7_CreateMakesEveryStep ==
    \A p \in Procs : CreateSucceeded(p) => Steps(p) = AllSteps(resourceKind)

\* C7 amended: every Create that returns success made, in this order, the
\* existence check when the import-safety guard applies (always for the data
\* source; for the fabric only with requireResourcesToBeImported set, else no
\* check is made), the submission, the wait for completion (the fabric; the
\* data source's CreateOrUpdate is synchronous) and the read; under the guard
\* no creation request precedes the existence check.
C7_CreateStepsUnderGuard ==
    \A p \in Procs :
        /\ CreateSucceeded(p) =>
            /\ Steps(p) = GuardedSteps(resourceKind, Guarded(p))
            /\ Calls(p) = StepCalls(resourceKind, Steps(p))
        /\ (op[p] = "Create" /\ Guarded(p)) =>
            \A i \in Mutations(p) : \E j \in 1..(i - 1) : trace[p][j].step = "check"

C7_Witness ==
    \E p \in Procs :
        CreateSucceeded(p) /\ resourceKind = "fabric" /\ Guarded(p)
        /\ Len(trace[p]) = 5

\* C8: for a configuration accepted by validation, the properties Create or
\* Update encodes into the remote document come back from Read's decoding of
\* that document with all four fields identical.
C8_PropertyRoundTrip ==
    \A p \in Procs :
        (/\ resourceKind = "wpc"
         /\ op[p] \in {"Create", "Update"}
         /\ Done(p) /\ result[p] = "ok"
         /\ clean[p])
        => /\ LastCall(p).resp = "found"
           /\ st[p].counter_name = cfg[p].counter_name
           /\ st[p].instance_name = cfg[p].instance_name
           /\ st[p].interval_seconds = cfg[p].interval_seconds
           /\ st[p].object_name = cfg[p].object_name

C8_Witness ==
    \E p \in Procs :
        /\ resourceKind = "wpc" /\ op[p] = "Create"
        /\ Done(p) /\ result[p] = "ok" /\ clean[p]
        /\ sent[p].intervalSeconds = JNum(Wide(MaxInt32))
        /\ st[p].interval_seconds = Wide(MaxInt32)

\* 10 <= w <= 2^31 - 1, on the two halves of a 64-bit value
IntervalInBounds(w) == (w.hi = 0 /\ w.lo >= 10) \/ (w.hi = 1 /\ w.lo <= 2^30 - 1)

\* C9: a configuration is accepted only with interval_seconds between 10 and
\* 2^31-1; any other is rejected at validation, before any remote call.
C9_IntervalValidated ==
    \A p \in Procs :
        (resourceKind = "wpc" /\ op[p] \in {"Create", "Update"}) =>
            IF IntervalInBounds(cfg[p].interval_seconds)
            THEN result[p] # "ValidationFailed"
            ELSE Done(p) /\ result[p] = "ValidationFailed" /\ trace[p] = <<>>

C9_Witness ==
    \E p \in Procs :
        /\ resourceKind = "wpc" /\ op[p] = "Create"
        /\ cfg[p].interval_seconds = Wide(5)
        /\ Done(p) /\ result[p] = "ValidationFailed" /\ trace[p] = <<>>

\* C10: a fabric Create that succeeds with no interfering operation leaves
\* name, resource_group_name and vault_name as submitted and location in its
\* normalized form ("westus" for "westus" and for "West US").
C10_FabricStateAfterCreate ==
    \A p \in Procs :
        (resourceKind = "fabric" /\ CreateSucceeded(p) /\ clean[p]) =>
            /\ dId[p] # NoId
            /\ st[p].name = cfg[p].name
            /\ st[p].resource_group_name = cfg[p].resource_group_name
            /\ st[p].vault_name = cfg[p].vault_name
            /\ st[p].location = azureRMNormalizeLocation(cfg[p].location)
            /\ st[p].location = WestUS

C10_Witness ==
    \E p \in Procs :
        /\ resourceKind = "fabric" /\ CreateSucceeded(p) /\ clean[p]
        /\ cfg[p].location = WestUSDisplay
        /\ st[p].location = WestUS

\* Read's Get (alone, or at the end of Create and Update) returned the resource
ReadFetched(p) ==
    /\ Done(p)
    /\ trace[p] # <<>>
    /\ LastCall(p).step = "read"
    /\ LastCall(p).resp = "found"

RequiredFields == {"counterName", "instanceName", "intervalSeconds", "objectName"}

\* every required field is in the document, with the shape of its struct field
DocumentWellFormed(doc) ==
    \A f \in RequiredFields :
        doc[f].t = (IF f = "intervalSeconds" THEN "number" ELSE "string")

PropertyFields(s) ==
    <<s.counter_name, s.instance_name, s.interval_seconds, s.object_name>>

\* C11 as stated: when the properties document Read receives lacks a required
\* field or holds one of the wrong shape, Read returns DecodeFailed and writes
\* none of the four property fields.
C11_DecodeFailsClosed ==
    \A p \in Procs :
        (/\ resourceKind = "wpc"
         /\ ReadFetched(p)
         /\ fetched[p].hasProps
         /\ ~DocumentWellFormed(fetched[p].properties))
        => /\ result[p] = "DecodeFailed"
           /\ PropertyFields(st[p]) = PropertyFields(prior[p].st)

\* Read or Delete was invoked on a stored id that lacks a required segment
MalformedCall(p) ==
    /\ op[p] \in {"Read", "Delete"}
    /\ ~ParseID(resourceKind, prior[p].id).ok

NestedMissing(k, res) ==
    IF k = "fabric"
    THEN ~res.hasProps \/ res.details # "Azure" \/ res.location = NilLocation
    ELSE ~res.hasProps

KindFields(k, s) == IF k = "fabric" THEN <<s.location>> ELSE PropertyFields(s)

\* C13 as stated: when Read fetches a resource whose nested properties are
\* absent or of an unknown kind, it returns no error, sets name, resource group
\* and parent, and leaves the property fields as they were before the call.
C13_AbsentNestedLeavesFields ==
    \A p \in Procs :
        (ReadFetched(p) /\ NestedMissing(resourceKind, fetched[p])) =>
            /\ result[p] = "ok"
            /\ st[p].name \in Names
            /\ st[p].resource_group_name = ResourceGroup
            /\ ParentOf(resourceKind, st[p]) = Parent
            /\ KindFields(resourceKind, st[p]) = KindFields(resourceKind, prior[p].st)

Range(f) == {f[i] : i \in 1..Len(f)}

\* name, resource group and parent of the resource an invocation works on
Addressee(p) ==
    IF op[p] \in {"Create", "Update"}
    THEN {cfg[p].name, cfg[p].resource_group_name, ParentOf(resourceKind, cfg[p])}
    ELSE LET id == ParseID(resourceKind, prior[p].id)
         IN {id.name, id.resourceGroup, id.parent}

\* the invocation ended on a mutating request, or on its long-running
\* operation, that failed
MutationFailed(p) ==
    /\ Done(p)
    /\ trace[p] # <<>>
    /\ LastCall(p).call \in MutatingCalls \cup {"Wait", "Result"}
    /\ LastCall(p).resp = "error"

\* C14: an invocation of Create, Update or Delete makes at most one mutating
\* request; when that request or its long-running operation fails, the
\* invocation returns RemoteOperationFailed with the name, the resource group
\* and the parent among the values of the error, having made no second
\* mutating request.
C14_NoAdapterRetry ==
    \A p \in Procs :
        /\ Cardinality(Mutations(p)) <= 1
        /\ MutationFailed(p) =>
            /\ result[p] = "RemoteOperationFailed"
            /\ Addressee(p) \subseteq Range(errArgs[p])

C14_Witness ==
    \E p \in Procs :
        /\ resourceKind = "fabric" /\ op[p] = "Create" /\ MutationFailed(p)
        /\ LastCall(p).call = "Wait"
        /\ Cardinality(Mutations(p)) = 1
        /\ errArgs[p] = <<"n1", Parent, ResourceGroup>>

\* the four fields as json.Unmarshal yields them from a fetched document
DecodedFields(res) ==
    LET prop == DecodeProperty(LooseDocument(res.properties)).prop
    IN <<prop.CounterName, prop.InstanceName, prop.IntervalSeconds, prop.ObjectName>>

\* C15: an Update of the data source makes no existence check and never
\* returns AlreadyExists; one that returns success made the submission, the
\* Get and the Read on the stored identifier, and when that Read fetched the
\* resource with properties the four tracked fields are the values of the
\* fetched document.
C15_UpdateRereads ==
    \A p \in Procs :
        op[p] = "Update" =>
            /\ \A i \in 1..Len(trace[p]) : trace[p][i].step # "check"
            /\ result[p] # "AlreadyExists"
            /\ (Done(p) /\ result[p] = "ok") =>
                /\ Steps(p) = <<"submit", "get", "read">>
                /\ Calls(p) = <<"CreateOrUpdate", "Get", "Get">>
                /\ dId[p] \in {prior[p].id, NoId}
                /\ (LastCall(p).resp = "found" /\ fetched[p].hasProps) =>
                       PropertyFields(st[p]) = DecodedFields(fetched[p])

C15_Witness ==
    \E p \in Procs :
        /\ op[p] = "Update" /\ Done(p) /\ result[p] = "ok"
        /\ trace[p][1].live
        /\ LastCall(p).resp = "found" /\ fetched[p].hasProps
        /\ PropertyFields(st[p]) # PropertyFields(cfg[p])

\* C17: a Create whose existence check fails with an error other than not-found
\* returns that error at once, with no other remote call and the id unset; a
\* Create that goes on after its check had a not-found answer to it.
C17_CheckErrorStopsCreate ==
    \A p \in Procs :
        (op[p] = "Create" /\ trace[p] # <<>> /\ trace[p][1].step = "check") =>
            /\ trace[p][1].resp = "error" =>
                /\ Done(p)
                /\ result[p] = "CheckFailed"
                /\ Len(trace[p]) = 1
                /\ dId[p] = NoId
            /\ (Len(trace[p]) >= 2 \/ pc[p] = "submit") => trace[p][1].resp = "notfound"

C17_Witness ==
    \E p \in Procs :
        /\ resourceKind = "wpc" /\ op[p] = "Create" /\ Done(p)
        /\ Len(trace[p]) = 1 /\ trace[p][1].step = "check"
        /\ trace[p][1].resp = "error" /\ ~trace[p][1].live
        /\ result[p] = "CheckFailed" /\ dId[p] = NoId

\* a step of Read (alone, or at the end of Create and Update)
ReadStep(p) == pc[p] = "read" /\ pc'[p] = "done"

\* C18: no step of Read changes a remote resource, a Read makes no mutating
\* call, and a Delete that returns an error leaves the stored id as it was.
C18_ReadFrameDeleteKeepsId ==
    [][\A p \in Procs :
        /\ ReadStep(p) => remote' = remote
        /\ op'[p] = "Read" =>
              \A i \in 1..Len(trace'[p]) : trace'[p][i].call \notin MutatingCalls
        /\ (op'[p] = "Delete" /\ pc'[p] = "done" /\ result'[p] # "ok") =>
              dId'[p] = prior'[p].id]_vars

C18_Witness ==
    \E p \in Procs :
        /\ op[p] = "Delete" /\ Done(p) /\ result[p] = "RemoteOperationFailed"
        /\ LastCall(p).step = "delresult"
        /\ dId[p] = prior[p].id /\ dId[p] # NoId

====
